---- MODULE Spec2Model ----
(***************************************************************************)
(* Model of the stock gateway of src/main.py: the TTL cache (CACHE,        *)
(* CACHE_LOCK), the download gate (DOWNLOAD_SEMAPHORE), the retry loop     *)
(* fetch_with_retries and the request handler stock_info, run by worker    *)
(* threads that interleave at the lock, the semaphore, the provider call   *)
(* and the backoff sleep.                                                  *)
(***************************************************************************)
EXTENDS Integers, Sequences, FiniteSets, TLC

(***************************************************************************)
(* Bounds of the model.                                                    *)
(***************************************************************************)
\* requests accepted in one behaviour of Spec, which serves them one at a time
MaxSerialRequests == 2
\* requests accepted in one behaviour of SpecGate
MaxGateRequests == 4
\* failed attempts among the requests the threads serve or served last, in
\* SpecGate
MaxGateFailures == 1
\* the wall clock stops advancing here
MaxNow == 90
\* requests accepted in one behaviour of SpecIntervals
MaxIntervalRequests == 1
\* requests accepted in one behaviour of SpecFlight
MaxFlightRequests == 2
\* requests accepted in one behaviour of SpecHit
MaxHitRequests == 5
\* requests accepted in one behaviour of SpecFair
MaxFairRequests == 2

(***************************************************************************)
(* Program constants.                                                      *)
(***************************************************************************)
\* CACHE_TTL = timedelta(seconds=90)
CACHE_TTL == 90
\* threading.Semaphore(3)
SEMAPHORE_SLOTS == 3
\* stock_info calls fetch_with_retries(..., retries=3, ...) for the requested interval
PRIMARY_RETRIES == 3
\* and fetch_with_retries(..., "1d", ..., retries=2, ...) in its except branch
FALLBACK_RETRIES == 2
\* backoff=1.0 in both calls
BACKOFF == 1

\* the worker threads of the transport layer: one more than the gate has slots
Threads == 1 .. (SEMAPHORE_SLOTS + 1)
\* the specification Spec serves its requests one at a time, on this worker
SerialThreads == {1}

VALID_INTERVALS ==
    { "1m", "2m", "5m", "15m", "30m", "60m", "90m",
      "1d", "5d", "1wk", "1mo", "3mo" }

alias_map == [ daily |-> "1d", weekly |-> "1wk", monthly |-> "1mo" ]

(***************************************************************************)
(* Strings: str.lower(), str.upper() and the substring test, character by  *)
(* character.                                                              *)
(***************************************************************************)
UpperLetters == "ABCDEFGHIJKLMNOPQRSTUVWXYZ"
LowerLetters == "abcdefghijklmnopqrstuvwxyz"

CharAt(s, i) == SubSeq(s, i, i)

MapChar(c, from, to) ==
    IF \E i \in 1 .. Len(from) : CharAt(from, i) = c
    THEN CharAt(to, CHOOSE i \in 1 .. Len(from) : CharAt(from, i) = c)
    ELSE c

RECURSIVE MapString(_, _, _)
MapString(s, from, to) ==
    IF s = "" THEN ""
    ELSE MapChar(CharAt(s, 1), from, to) \o MapString(SubSeq(s, 2, Len(s)), from, to)

lower(s) == MapString(s, UpperLetters, LowerLetters)
upper(s) == MapString(s, LowerLetters, UpperLetters)

\* needle in s
Contains(s, needle) ==
    \E i \in 1 .. (Len(s) - Len(needle) + 1) :
        SubSeq(s, i, i + Len(needle) - 1) = needle

(***************************************************************************)
(* Values.  None, exceptions and DataFrames are tagged records.            *)
(***************************************************************************)
None == [kind |-> "None"]
Exc(msg) == [kind |-> "exc", msg |-> msg]
\* a cell holding a number, and a cell holding a string
Num(n) == [kind |-> "num", n |-> n]
Text(s) == [kind |-> "text", s |-> s]
\* a datetime index value, and an index value that has no strftime
DateTime(ymd, h, m, s) == [kind |-> "datetime", ymd |-> ymd, hour |-> h, minute |-> m, second |-> s]
DataFrame(columns, rows) == [kind |-> "df", columns |-> columns, rows |-> rows]
\* one row: the index value and the cells of the data columns
Row(date, cells) == [date |-> date, cells |-> cells]

empty(hist) == Len(hist.rows) = 0

(***************************************************************************)
(* Number and text conversions: float(), str().                            *)
(***************************************************************************)
Digits == "0123456789"

IsDigit(c) == \E i \in 1 .. 10 : CharAt(Digits, i) = c
DigitValue(c) == (CHOOSE i \in 1 .. 10 : CharAt(Digits, i) = c) - 1

RECURSIVE ParseDigits(_)
ParseDigits(s) ==
    IF s = "" THEN 0
    ELSE 10 * ParseDigits(SubSeq(s, 1, Len(s) - 1)) + DigitValue(CharAt(s, Len(s)))

RECURSIVE IntString(_)
\* str() of a natural number
IntString(n) ==
    IF n < 10 THEN CharAt(Digits, n + 1)
    ELSE IntString(n \div 10) \o CharAt(Digits, (n % 10) + 1)

\* str() of a float that holds a whole number: "10.0"
FloatString(n) == IntString(n) \o ".0"

\* float(v): the number of a numeric cell or of a string of digits; a
\* ValueError for any other string, a TypeError for None
float(v) ==
    CASE v.kind = "num" -> v
      [] v.kind = "text" ->
            IF v.s # "" /\ \A i \in 1 .. Len(v.s) : IsDigit(CharAt(v.s, i))
            THEN Num(ParseDigits(v.s))
            ELSE Exc("could not convert string to float: '" \o v.s \o "'")
      [] OTHER -> Exc("float() argument must be a string or a number, not 'NoneType'")

(***************************************************************************)
(* df_to_records, build_xml and the body of stock_info's second try block. *)
(***************************************************************************)
TwoDigits(n) == CharAt(Digits, (n \div 10) + 1) \o CharAt(Digits, (n % 10) + 1)

\* date_str of one index value (lines 39-43)
date_str(date_val) ==
    IF date_val.kind = "datetime"
    THEN IF date_val.hour # 0 \/ date_val.minute # 0 \/ date_val.second # 0
         THEN date_val.ymd \o " " \o TwoDigits(date_val.hour) \o ":"
                  \o TwoDigits(date_val.minute) \o ":" \o TwoDigits(date_val.second)
         ELSE date_val.ymd
    ELSE date_val.s

\* the value of a named column in a row, None when the frame has no such column
field(hist, row, name) ==
    IF name \in hist.columns THEN row.cells[name] ELSE None

\* None if v is None else float(v)
float_or_None(v) == IF v = None THEN None ELSE float(v)

\* the record of one row; a field that float() rejects holds the exception
row_record(hist, row) ==
    [ date  |-> date_str(row.date),
      open  |-> float_or_None(field(hist, row, "Open")),
      close |-> float_or_None(field(hist, row, "Close")) ]

row_raises(rec) == rec.open.kind = "exc" \/ rec.close.kind = "exc"

\* the list of records, or the exception raised at the first row that has one
df_to_records(hist) ==
    LET recs == [i \in 1 .. Len(hist.rows) |-> row_record(hist, hist.rows[i])]
    IN  IF \E i \in 1 .. Len(recs) : row_raises(recs[i])
        THEN LET i == CHOOSE i \in 1 .. Len(recs) :
                          /\ row_raises(recs[i])
                          /\ \A j \in 1 .. (i - 1) : ~row_raises(recs[j])
             IN  IF recs[i].open.kind = "exc" THEN recs[i].open ELSE recs[i].close
        ELSE [kind |-> "records", records |-> recs]

\* DataFrame.head(n) for n >= 0: the first n rows
head(hist, n) ==
    LET L == Len(hist.rows)
    IN  DataFrame(hist.columns, SubSeq(hist.rows, 1, IF n >= L THEN L ELSE n))

\* DataFrame.tail(n)
tail(hist, n) ==
    LET L == Len(hist.rows)
        from == IF n = 0 THEN L + 1
                ELSE IF n > 0 THEN (IF n >= L THEN 1 ELSE L - n + 1)
                ELSE (IF -n >= L THEN L + 1 ELSE 1 - n)
    IN  DataFrame(hist.columns, SubSeq(hist.rows, from, L))

\* float(hist["Close"].iloc[-1]), None when that raises (lines 164-169)
latest_close(hist) ==
    IF "Close" \notin hist.columns \/ empty(hist) THEN None
    ELSE LET v == float(hist.rows[Len(hist.rows)].cells["Close"])
         IN  IF v.kind = "exc" THEN None ELSE v

Element(tag, text, children) == [tag |-> tag, text |-> text, children |-> children]

number_text(v) == IF v = None THEN "N/A" ELSE FloatString(v.n)

build_xml(symbol, current_price, interval, records) ==
    Element("stock", "",
        << Element("symbol", upper(symbol), <<>>),
           Element("current_price", number_text(current_price), <<>>),
           Element("source", "YahooFinance (yfinance)", <<>>),
           Element("interval", interval, <<>>),
           Element("records_returned", IntString(Len(records)), <<>>),
           Element("history", "",
               [i \in 1 .. Len(records) |->
                   Element("record", "",
                       << Element("date", records[i].date, <<>>),
                          Element("open", number_text(records[i].open), <<>>),
                          Element("close", number_text(records[i].close), <<>>) >>)]) >>)

\* the <error><message>...</message></error> document of the three error returns
error_xml(message) == Element("error", "", << Element("message", message, <<>>) >>)

Response(content, media_type, status_code) ==
    [content |-> content, media_type |-> media_type, status_code |-> status_code]

\* "application/json" in accept.lower()
wants_json(accept) == Contains(lower(accept), "application/json")

\* lines 163-191: the response built from the truncated frame's records
\* (or the exception df_to_records raised) and the latest close
response_of(symbol, interval, accept, recs, current_price) ==
    IF recs.kind = "exc"
    THEN Response(error_xml(recs.msg), "application/xml", 500)
    ELSE IF wants_json(accept)
    THEN Response([ symbol |-> upper(symbol),
                    current_price |-> current_price,
                    source |-> "YahooFinance (yfinance)",
                    interval |-> interval,
                    records_returned |-> Len(recs.records),
                    history |-> recs.records ],
                  "application/json", 200)
    ELSE Response(build_xml(symbol, current_price, interval, recs.records),
                  "application/xml", 200)

\* lines 156-191: the response built from the fetched or cached frame; the
\* truncated frame, its records and its latest close are computed once each
build_response(symbol, interval, max_records, accept, hist0) ==
    IF empty(hist0)
    THEN Response(error_xml("Empty data after fetch"), "application/xml", 500)
    ELSE CHOOSE resp \in
             { response_of(symbol, interval, accept, recs, current_price) :
                  recs \in { df_to_records(hist) : hist \in {tail(hist0, max_records)} },
                  current_price \in { latest_close(hist) : hist \in {tail(hist0, max_records)} } } :
             TRUE

(***************************************************************************)
(* State.                                                                  *)
(***************************************************************************)
VARIABLES
    CACHE,               \* key -> [ts, data], a function on the keys present
    CACHE_LOCK,          \* the thread inside "with CACHE_LOCK", 0 when free
    DOWNLOAD_SEMAPHORE,  \* the semaphore's counter: the free slots
    now,                 \* datetime.utcnow(), in seconds
    pc,                  \* where each thread stands
    request,             \* the arguments of the request each thread serves
    interval,            \* stock_info's local interval, after normalization
    hist,                \* stock_info's local hist
    frame,               \* the running fetch_with_retries call of each thread
    response,            \* the Response each thread returned last
    trace,               \* what each thread did for its current request
    returned,            \* what the provider call of each thread returned or
                         \* raised last, in its running fetch_with_retries
    started,             \* requests accepted so far
    overlapped           \* the threads whose request had a provider call run
                         \* while another thread was inside a provider call
                         \* for the same cache key; kept for watched threads

vars == << CACHE, CACHE_LOCK, DOWNLOAD_SEMAPHORE, now, pc, request, interval,
           hist, frame, response, trace, returned, started, overlapped >>

NoRequest == [kind |-> "None"]
NoFrame == [kind |-> "None"]
NoResponse == [kind |-> "None"]
NoResult == [kind |-> "no result"]

Init ==
    /\ CACHE = << >>
    /\ CACHE_LOCK = 0
    /\ DOWNLOAD_SEMAPHORE = SEMAPHORE_SLOTS
    /\ now = 0
    /\ pc = [t \in Threads |-> "idle"]
    /\ request = [t \in Threads |-> NoRequest]
    /\ interval = [t \in Threads |-> ""]
    /\ hist = [t \in Threads |-> None]
    /\ frame = [t \in Threads |-> NoFrame]
    /\ response = [t \in Threads |-> NoResponse]
    /\ trace = [t \in Threads |-> << >>]
    /\ returned = [t \in Threads |-> NoResult]
    /\ started = 0
    /\ overlapped = {}

\* key = (symbol.upper(), interval)
cache_key(symbol, itv) == << upper(symbol), itv >>

\* the frame of fetch_with_retries(symbol, interval, period, retries, backoff)
\* entered from the call site `site` of stock_info, before its first attempt
Call(site, itv, retries, backoff) ==
    [ kind |-> "frame", site |-> site, interval |-> itv, retries |-> retries,
      backoff |-> backoff, attempt |-> 1, last_exc |-> None ]

Event(name, detail) == [event |-> name, detail |-> detail]

Log(t, name, detail) == trace' = [trace EXCEPT ![t] = Append(@, Event(name, detail))]

RECURSIVE Pow2(_)
Pow2(n) == IF n = 0 THEN 1 ELSE 2 * Pow2(n - 1)

(***************************************************************************)
(* stock_info, lines 124-137: a request arrives at thread t; its interval  *)
(* is lower-cased, resolved through alias_map and validated.               *)
(***************************************************************************)
\* lines 125-130 without the else branch of line 131
normalize_unchecked(itv) ==
    LET low == lower(itv)
    IN  IF low \in DOMAIN alias_map THEN Text(alias_map[low]) ELSE Text(low)

\* lines 126-131 without the lower() of line 125
normalize_case_sensitive(itv) ==
    IF itv \in VALID_INTERVALS THEN Text(itv)
    ELSE IF itv \in DOMAIN alias_map THEN Text(alias_map[itv])
    ELSE None

\* the interval after lines 125-130, None when line 131 is reached
normalize(itv) ==
    LET low == lower(itv)
    IN  IF low \in VALID_INTERVALS THEN Text(low)
        ELSE IF low \in DOMAIN alias_map THEN Text(alias_map[low])
        ELSE None

\* thread t serves no request
free(t) == pc[t] \in {"idle", "done"}

stock_info(t, req) ==
    /\ free(t)
    /\ started' = started + 1
    /\ request' = [request EXCEPT ![t] = req]
    /\ hist' = [hist EXCEPT ![t] = None]
    /\ frame' = [frame EXCEPT ![t] = NoFrame]
    /\ trace' = [trace EXCEPT ![t] = << >>]
    /\ returned' = [returned EXCEPT ![t] = NoResult]
    /\ overlapped' = overlapped \ {t}
    /\ LET norm == normalize(req.interval)
       IN  IF norm = None
           THEN /\ interval' = [interval EXCEPT ![t] = lower(req.interval)]
                /\ response' = [response EXCEPT ![t] =
                       Response(error_xml("Unsupported interval '" \o lower(req.interval) \o "'"),
                                "application/xml", 400)]
                /\ pc' = [pc EXCEPT ![t] = "done"]
           ELSE /\ interval' = [interval EXCEPT ![t] = norm.s]
                /\ response' = [response EXCEPT ![t] = NoResponse]
                /\ pc' = [pc EXCEPT ![t] = "get_from_cache"]
    /\ UNCHANGED << CACHE, CACHE_LOCK, DOWNLOAD_SEMAPHORE, now >>

(***************************************************************************)
(* get_from_cache, lines 80-89, and the branch of lines 138-143.           *)
(***************************************************************************)
\* line 82: enter "with CACHE_LOCK"
get_from_cache_lock(t) ==
    /\ pc[t] = "get_from_cache"
    /\ CACHE_LOCK = 0
    /\ CACHE_LOCK' = t
    /\ pc' = [pc EXCEPT ![t] = "get_from_cache_locked"]
    /\ UNCHANGED << CACHE, DOWNLOAD_SEMAPHORE, now, request, interval, hist,
                    frame, response, trace, returned, started, overlapped >>

\* line 85 with <= for <
fresh_inclusive(entry, clock) == clock - entry.ts <= CACHE_TTL

\* line 85
fresh(entry, clock) == clock - entry.ts < CACHE_TTL

\* what get_from_cache returns from cache c at time clock
cache_result(c, key, clock) ==
    IF key \in DOMAIN c /\ fresh(c[key], clock) THEN c[key].data ELSE None

\* a lookup that renews the timestamp of the entry it returns
cache_after_get_refreshing(c, key, clock) ==
    IF key \in DOMAIN c
    THEN IF fresh(c[key], clock)
         THEN [c EXCEPT ![key].ts = clock]
         ELSE [k \in DOMAIN c \ {key} |-> c[k]]
    ELSE c

\* the cache that get_from_cache leaves
cache_after_get(c, key, clock) ==
    IF key \in DOMAIN c /\ ~fresh(c[key], clock)
    THEN [k \in DOMAIN c \ {key} |-> c[k]]
    ELSE c

\* a lock that the caller keeps until it has stored what it fetched
lock_kept_by_caller(t) == t

\* the holder of CACHE_LOCK when the with block of line 82 or line 93 ends:
\* nobody
lock_after_with(t) == 0

\* lines 83-89 under the lock, the release, and lines 137-143 of the caller
get_from_cache(t) ==
    /\ pc[t] = "get_from_cache_locked"
    /\ CACHE_LOCK = t
    /\ LET key == cache_key(request[t].symbol, interval[t])
           cached == cache_result(CACHE, key, now)
       IN  /\ CACHE' = cache_after_get(CACHE, key, now)
           /\ CACHE_LOCK' = lock_after_with(t)
           /\ Log(t, "get_from_cache", key)
           /\ IF cached # None
              THEN /\ hist' = [hist EXCEPT ![t] = cached]
                   /\ pc' = [pc EXCEPT ![t] = "respond"]
                   /\ UNCHANGED frame
              ELSE /\ frame' = [frame EXCEPT ![t] =
                          Call("primary", interval[t], PRIMARY_RETRIES, BACKOFF)]
                   /\ pc' = [pc EXCEPT ![t] = "acquire"]
                   /\ UNCHANGED hist
    /\ UNCHANGED << DOWNLOAD_SEMAPHORE, now, request, interval, response,
                    returned, started, overlapped >>

(***************************************************************************)
(* fetch_with_retries, lines 96-117, and its two call sites, lines 141-151.*)
(***************************************************************************)
\* acquire with the semaphore's wait left out
acquire_without_wait(t) ==
    /\ pc[t] = "acquire"
    /\ DOWNLOAD_SEMAPHORE' = DOWNLOAD_SEMAPHORE - 1
    /\ pc' = [pc EXCEPT ![t] = "download"]
    /\ trace' = [trace EXCEPT ![t] = @ \o
           << Event("acquire", << frame[t].site, frame[t].attempt >>),
              Event("yf.download", << frame[t].site, request[t].symbol,
                                      request[t].period, frame[t].interval >>) >>]
    /\ UNCHANGED << CACHE, CACHE_LOCK, now, request, interval, hist, frame,
                    response, returned, started >>

\* the threads inside the provider call for the cache key of thread t
peers(t) ==
    {u \in Threads \ {t} :
        /\ pc[u] = "download"
        /\ cache_key(request[u].symbol, interval[u])
              = cache_key(request[t].symbol, interval[t])}

\* a gate that admits one provider call per cache key at a time
acquire_single_flight(t) ==
    /\ pc[t] = "acquire"
    /\ DOWNLOAD_SEMAPHORE > 0
    /\ peers(t) = {}
    /\ DOWNLOAD_SEMAPHORE' = DOWNLOAD_SEMAPHORE - 1
    /\ pc' = [pc EXCEPT ![t] = "download"]
    /\ trace' = [trace EXCEPT ![t] = @ \o
           << Event("acquire", << frame[t].site, frame[t].attempt >>),
              Event("yf.download", << frame[t].site, request[t].symbol,
                                      request[t].period, frame[t].interval >>) >>]
    /\ UNCHANGED << CACHE, CACHE_LOCK, now, request, interval, hist, frame,
                    response, returned, started >>

\* line 102: enter "with DOWNLOAD_SEMAPHORE"; line 104 calls the provider
acquire(t) ==
    /\ pc[t] = "acquire"
    /\ DOWNLOAD_SEMAPHORE > 0
    /\ DOWNLOAD_SEMAPHORE' = DOWNLOAD_SEMAPHORE - 1
    /\ pc' = [pc EXCEPT ![t] = "download"]
    /\ trace' = [trace EXCEPT ![t] = @ \o
           << Event("acquire", << frame[t].site, frame[t].attempt >>),
              Event("yf.download", << frame[t].site, request[t].symbol,
                                      request[t].period, frame[t].interval >>) >>]
    /\ UNCHANGED << CACHE, CACHE_LOCK, now, request, interval, hist, frame,
                    response, returned, started >>

\* lines 106-113 without the test of hist.empty
attempt_failure_unless_empty(result) ==
    CASE result.kind = "exc" -> result
      [] result.kind = "None" -> Exc("yfinance returned None")
      [] OTHER -> None

\* lines 106-113: the exception the attempt ends with, None when it returns hist
attempt_failure(result) ==
    CASE result.kind = "exc" -> result
      [] result.kind = "None" -> Exc("yfinance returned None")
      [] empty(result) -> Exc("Empty DataFrame returned")
      [] OTHER -> None

\* a loop that keeps the first exception
first_exc(f, failure) == IF f.last_exc = None THEN failure ELSE f.last_exc

\* lines 111 and 113: last_exc after an attempt of frame f failed
last_exc(f, failure) == failure

\* a release that an exception of the provider call skips
released_on_return(result) == IF result.kind = "exc" THEN 0 ELSE 1

\* a with block that also holds the sleep of line 115 and the next attempt
released_after_backoff(result) == IF attempt_failure(result) = None THEN 1 ELSE 0

\* the slots the with block of line 102 gives back when the call ends
released(result) == 1

\* the provider call of line 104 ends with `result` (a frame, None or an
\* exception); the with block releases the slot; lines 105-113
download(t, result) ==
    /\ pc[t] = "download"
    /\ DOWNLOAD_SEMAPHORE' = DOWNLOAD_SEMAPHORE + released(result)
    /\ Log(t, "release", << frame[t].site, frame[t].attempt >>)
    /\ returned' = [returned EXCEPT ![t] = result]
    /\ LET failure == attempt_failure(result)
       IN  IF failure = None
           THEN /\ hist' = [hist EXCEPT ![t] = result]
                /\ frame' = [frame EXCEPT ![t] = NoFrame]
                /\ pc' = [pc EXCEPT ![t] = "set_cache"]
           ELSE /\ frame' = [frame EXCEPT ![t].last_exc = last_exc(frame[t], failure)]
                /\ pc' = [pc EXCEPT ![t] = "sleep"]
                /\ UNCHANGED hist
    /\ UNCHANGED << CACHE, CACHE_LOCK, now, request, interval, response, started,
                    overlapped >>

\* line 115
backoff_seconds(f) == f.backoff * Pow2(f.attempt - 1)

\* range(1, retries + 2)
loop_runs_once_more(f) == f.attempt <= f.retries

\* does the loop of line 99 run another attempt after attempt f.attempt
loop_continues(f) == f.attempt < f.retries

\* does the except branch of line 144 start the fallback sequence
falls_back(site) == site = "primary"

\* line 115, then the next attempt, or line 117 and the handler it reaches:
\* line 147 (the fallback call) from the first call site, lines 148-151 from
\* the second
sleep(t) ==
    /\ pc[t] = "sleep"
    /\ Log(t, "sleep", << frame[t].site, backoff_seconds(frame[t]) >>)
    /\ IF loop_continues(frame[t])
       THEN /\ frame' = [frame EXCEPT ![t].attempt = @ + 1]
            /\ pc' = [pc EXCEPT ![t] = "acquire"]
            /\ UNCHANGED << response, returned >>
       ELSE IF falls_back(frame[t].site)
       THEN /\ frame' = [frame EXCEPT ![t] = Call("fallback", "1d", FALLBACK_RETRIES, BACKOFF)]
            /\ pc' = [pc EXCEPT ![t] = "acquire"]
            /\ returned' = [returned EXCEPT ![t] = NoResult]
            /\ UNCHANGED response
       ELSE /\ response' = [response EXCEPT ![t] =
                   Response(error_xml("No data returned for symbol '" \o request[t].symbol
                                \o "' with interval '" \o interval[t]
                                \o "' or fallback: " \o frame[t].last_exc.msg),
                            "application/xml", 502)]
            /\ frame' = [frame EXCEPT ![t] = NoFrame]
            /\ pc' = [pc EXCEPT ![t] = "done"]
            /\ UNCHANGED returned
    /\ UNCHANGED << CACHE, CACHE_LOCK, DOWNLOAD_SEMAPHORE, now, request, interval,
                    hist, started, overlapped >>

(***************************************************************************)
(* set_cache, lines 91-94, called at line 153.                             *)
(***************************************************************************)
set_cache_lock(t) ==
    /\ pc[t] = "set_cache"
    /\ CACHE_LOCK = 0
    /\ CACHE_LOCK' = t
    /\ pc' = [pc EXCEPT ![t] = "set_cache_locked"]
    /\ UNCHANGED << CACHE, DOWNLOAD_SEMAPHORE, now, request, interval, hist,
                    frame, response, trace, returned, started, overlapped >>

\* the key of the interval the stored frame was fetched for
fetched_key(t) ==
    cache_key(request[t].symbol,
              IF \E i \in 1 .. Len(trace[t]) :
                     /\ trace[t][i].event = "yf.download"
                     /\ trace[t][i].detail[1] = "fallback"
              THEN "1d" ELSE interval[t])

\* the key stock_info stores the fetched frame under (line 153)
store_key(t) == cache_key(request[t].symbol, interval[t])

set_cache(t) ==
    /\ pc[t] = "set_cache_locked"
    /\ CACHE_LOCK = t
    /\ LET key == store_key(t)
       IN  /\ CACHE' = [k \in DOMAIN CACHE \cup {key} |->
                           IF k = key THEN [ts |-> now, data |-> hist[t]] ELSE CACHE[k]]
           /\ Log(t, "set_cache", key)
    /\ CACHE_LOCK' = lock_after_with(t)
    /\ pc' = [pc EXCEPT ![t] = "respond"]
    /\ UNCHANGED << DOWNLOAD_SEMAPHORE, now, request, interval, hist, frame,
                    response, returned, started, overlapped >>

(***************************************************************************)
(* stock_info, lines 155-191.                                              *)
(***************************************************************************)
respond(t) ==
    /\ pc[t] = "respond"
    /\ response' = [response EXCEPT ![t] =
           build_response(request[t].symbol, interval[t], request[t].max_records,
                          request[t].accept, hist[t])]
    /\ pc' = [pc EXCEPT ![t] = "done"]
    /\ UNCHANGED << CACHE, CACHE_LOCK, DOWNLOAD_SEMAPHORE, now, request, interval,
                    hist, frame, trace, returned, started, overlapped >>

(***************************************************************************)
(* The wall clock.                                                         *)
(***************************************************************************)
Tick(d) ==
    /\ now + d <= MaxNow
    /\ now' = now + d
    /\ UNCHANGED << CACHE, CACHE_LOCK, DOWNLOAD_SEMAPHORE, pc, request, interval,
                    hist, frame, response, trace, returned, started, overlapped >>

(***************************************************************************)
(* The environment: the requests that arrive and what the provider         *)
(* answers.                                                                *)
(***************************************************************************)
Request(symbol, itv, period, max_records, accept) ==
    [ symbol |-> symbol, interval |-> itv, period |-> period,
      max_records |-> max_records, accept |-> accept ]

\* three daily rows with Open and Close, the last Close a string of digits
DailyFrame ==
    DataFrame({"Open", "Close"},
        << Row(DateTime("2024-01-02", 0, 0, 0), [Open |-> Num(10), Close |-> Num(11)]),
           Row(DateTime("2024-01-03", 0, 0, 0), [Open |-> Num(11), Close |-> Num(12)]),
           Row(DateTime("2024-01-04", 0, 0, 0), [Open |-> Num(12), Close |-> Text("13")]) >>)

\* three intraday rows of a frame that has no Close column; the first Open
\* is not a number
OddFrame ==
    DataFrame({"Open"},
        << Row(DateTime("2024-01-04", 9, 30, 0), [Open |-> Text("n/a")]),
           Row(DateTime("2024-01-04", 9, 35, 5), [Open |-> Num(21)]),
           Row(DateTime("2024-01-04", 9, 40, 0), [Open |-> Num(22)]) >>)

EmptyFrame == DataFrame({"Open", "Close"}, << >>)

ProviderResults == { DailyFrame, OddFrame, EmptyFrame, None, Exc("rate limited") }

Requests ==
    { Request("acme", itv, "6mo", n, acc) :
        itv \in {"5m", "Daily", "7D"}, n \in {0, 2, 180},
        acc \in {"", "Application/JSON"} }

TickSteps == {44, 45}

\* the requests and answers of the specification SpecGate, where every
\* thread serves requests
GateRequests == { Request("acme", "5m", "6mo", 180, "") }
GateResults == { DailyFrame, Exc("rate limited") }
GateTickSteps == {CACHE_TTL}
\* the clock step of the specification SpecHit: an entry ages, and stays valid
HitTickSteps == {CACHE_TTL - 1}

\* the spellings of s in every mix of upper and lower case
RECURSIVE CaseVariants(_)
CaseVariants(s) ==
    IF s = "" THEN {""}
    ELSE { c \o rest :
             c \in { MapChar(CharAt(s, 1), UpperLetters, LowerLetters),
                     MapChar(CharAt(s, 1), LowerLetters, UpperLetters) },
             rest \in CaseVariants(SubSeq(s, 2, Len(s))) }

\* the spellings of every member of the enumeration and of every alias
IntervalSpellings ==
    [ m \in VALID_INTERVALS \cup DOMAIN alias_map |-> CaseVariants(m) ]

\* the requests of the specification SpecIntervals: every spelling of every
\* member and alias, and spellings of intervals that are neither
IntervalRequests ==
    { Request("acme", itv, "6mo", 180, "") :
        itv \in UNION { IntervalSpellings[m] : m \in DOMAIN IntervalSpellings }
                  \cup { "7D", "dayly", "1 d", "" } }

(***************************************************************************)
(* Specifications.                                                         *)
(***************************************************************************)
\* the failed attempts of the request that thread t serves or served last
failed_attempts(t) ==
    Cardinality({i \in 1 .. Len(trace[t]) : trace[t][i].event = "sleep"})
        + (IF pc[t] = "sleep" THEN 1 ELSE 0)

RECURSIVE Sum(_, _)
Sum(f, S) == IF S = {} THEN 0 ELSE LET x == CHOOSE x \in S : TRUE IN f[x] + Sum(f, S \ {x})

failures_seen == Sum([t \in Threads |-> failed_attempts(t)], Threads)

\* overlapped, when thread t enters the provider call
overlapped_after(t, watched) ==
    IF t \in watched /\ peers(t) \cap watched # {}
    THEN overlapped \cup {t} \cup (peers(t) \cap watched)
    ELSE overlapped

\* the provider call of thread t ends, with a failure only while fewer than
\* maxFailures failed attempts are on the threads' traces
returns(t, results, maxFailures) ==
    \E result \in results :
        /\ attempt_failure(result) # None => failures_seen < maxFailures
        /\ download(t, result)

\* thread t enters the provider call; overlapping calls are recorded for the
\* threads in watched
enters(t, watched) ==
    /\ acquire(t)
    /\ overlapped' = overlapped_after(t, watched)

\* the steps of threads T, for requests reqs, provider answers results and
\* clock steps ticks; at most maxRequests requests are accepted, and an
\* attempt may fail while fewer than maxFailures failed attempts are on the
\* threads' traces; overlapping provider calls are recorded for the threads
\* in watched
Step(T, reqs, results, ticks, maxRequests, maxFailures, watched) ==
    \/ \E t \in T, req \in reqs :
          /\ started < maxRequests
          /\ stock_info(t, req)
    \/ \E t \in T : get_from_cache_lock(t)
    \/ \E t \in T : get_from_cache(t)
    \/ \E t \in T : enters(t, watched)
    \/ \E t \in T : returns(t, results, maxFailures)
    \/ \E t \in T : sleep(t)
    \/ \E t \in T : set_cache_lock(t)
    \/ \E t \in T : set_cache(t)
    \/ \E t \in T : respond(t)
    \/ \E d \in ticks : Tick(d)

\* requests of every kind, served one at a time; a single request never has
\* more than PRIMARY_RETRIES + FALLBACK_RETRIES - 1 failed attempts behind it
\* when an attempt ends, so no attempt is kept from failing
Next ==
    Step(SerialThreads, Requests, ProviderResults, TickSteps, MaxSerialRequests,
         PRIMARY_RETRIES + FALLBACK_RETRIES, {})

Spec == Init /\ [][Next]_vars

\* every thread serves requests, of one kind
NextGate ==
    Step(Threads, GateRequests, GateResults, GateTickSteps, MaxGateRequests,
         MaxGateFailures, {})

SpecGate == Init /\ [][NextGate]_vars

\* one request, its interval in any spelling
NextIntervals ==
    Step(SerialThreads, IntervalRequests, GateResults, GateTickSteps,
         MaxIntervalRequests, MaxGateFailures, {})

SpecIntervals == Init /\ [][NextIntervals]_vars

\* two threads serve requests for one key; their overlapping provider calls
\* are recorded
FlightThreads == {1, 2}

NextFlight ==
    Step(FlightThreads, GateRequests, GateResults, GateTickSteps,
         MaxFlightRequests, MaxGateFailures, FlightThreads)

SpecFlight == Init /\ [][NextFlight]_vars

\* every thread serves requests, one more request than there are threads
NextHit ==
    Step(Threads, GateRequests, GateResults, HitTickSteps, MaxHitRequests,
         MaxGateFailures, {})

SpecHit == Init /\ [][NextHit]_vars

\* two threads serve requests whose every attempt may fail
NextFair ==
    Step(FlightThreads, GateRequests, GateResults, GateTickSteps, MaxFairRequests,
         PRIMARY_RETRIES + FALLBACK_RETRIES, {})

\* a thread that serves a request keeps running: its lookup, its provider
\* call, its sleep, its write and its response each end (weak fairness); a
\* thread that waits for CACHE_LOCK or for a slot of DOWNLOAD_SEMAPHORE gets
\* it when it is free again and again (strong fairness).  Requests need not
\* arrive and the clock need not advance.
Fairness ==
    \A t \in FlightThreads :
        /\ SF_vars(get_from_cache_lock(t))
        /\ WF_vars(get_from_cache(t))
        /\ SF_vars(enters(t, {}))
        /\ WF_vars(returns(t, GateResults, PRIMARY_RETRIES + FALLBACK_RETRIES))
        /\ WF_vars(sleep(t))
        /\ SF_vars(set_cache_lock(t))
        /\ WF_vars(set_cache(t))
        /\ WF_vars(respond(t))

SpecFair == Init /\ [][NextFair]_vars /\ Fairness

(***************************************************************************)
(* Properties.                                                             *)
(***************************************************************************)
\* the threads inside the provider call of line 104
in_provider_call == {t \in Threads : pc[t] = "download"}

\* the events of a kind in the trace of thread t
events(t, name) == {i \in 1 .. Len(trace[t]) : trace[t][i].event = name}

\* the provider calls thread t made for its request, in all and in one of the
\* two retry sequences
calls(t) == Cardinality(events(t, "yf.download"))
calls_in(t, site) ==
    Cardinality({i \in events(t, "yf.download") : trace[t][i].detail[1] = site})

status(t) == IF response[t] = NoResponse THEN 0 ELSE response[t].status_code

\* C1: at most 3 fetch attempts are inside the provider call at any time,
\* however many requests are being served.
C1_GateAdmitsAtMostThree == Cardinality(in_provider_call) <= 3

\* three threads are inside the provider call and a fourth waits at the gate
C1_Witness ==
    /\ Cardinality(in_provider_call) = 3
    /\ \E t \in Threads : pc[t] = "acquire"

\* C2: every attempt holds exactly one slot while it is inside the provider
\* call and gives it back when the call ends, whatever the call's outcome:
\* free slots + attempts inside the call = 3, so with no attempt in flight all
\* 3 slots are free.
C2_SlotsAccounted ==
    /\ DOWNLOAD_SEMAPHORE + Cardinality(in_provider_call) = 3
    /\ in_provider_call = {} => DOWNLOAD_SEMAPHORE = 3

\* a call has raised and its thread waits out the backoff, another call has
\* returned data, and a third thread is inside the call: 2 slots are free
C2_Witness ==
    /\ \E t \in Threads : pc[t] = "sleep" /\ returned[t].kind = "exc"
    /\ \E t \in Threads : pc[t] = "set_cache" /\ returned[t].kind = "df"
    /\ Cardinality(in_provider_call) = 1
    /\ DOWNLOAD_SEMAPHORE = 2

\* C3: get_from_cache returns the stored series and leaves the entry in place
\* when the entry of the key is younger than 90 seconds; it returns None and
\* deletes the entry when the entry is 90 seconds old or older; it returns
\* None when the key has no entry.  (Returning a series makes stock_info go on
\* to build the response from it, returning None makes it start the fetch.)
C3_CacheLookup ==
    [][\A t \in Threads :
        (pc[t] = "get_from_cache_locked" /\ pc'[t] # "get_from_cache_locked") =>
            LET key == cache_key(request[t].symbol, interval[t])
                present == key \in DOMAIN CACHE
                age == now - CACHE[key].ts
            IN  /\ (present /\ age < 90) =>
                        /\ pc'[t] = "respond"
                        /\ hist'[t] = CACHE[key].data
                        /\ CACHE' = CACHE
                /\ (present /\ age >= 90) =>
                        /\ pc'[t] = "acquire"
                        /\ hist'[t] = None
                        /\ key \notin DOMAIN CACHE'
                /\ ~present =>
                        /\ pc'[t] = "acquire"
                        /\ hist'[t] = None
                        /\ CACHE' = CACHE
      ]_vars

\* a request was answered from an entry that is 89 seconds old and still there
C3_Witness ==
    \E t \in Threads :
        LET key == cache_key(request[t].symbol, interval[t])
        IN  /\ pc[t] = "respond"
            /\ calls(t) = 0
            /\ key \in DOMAIN CACHE
            /\ now - CACHE[key].ts = 89
            /\ hist[t] = CACHE[key].data

\* is r a non-empty frame
is_data(r) == r.kind = "df" /\ Len(r.rows) > 0

sleeps_in(t, site) ==
    Cardinality({i \in events(t, "sleep") : trace[t][i].detail[1] = site})

\* C5: backoff sleeps occur only between attempts: at most 2 in the primary
\* sequence of 3 attempts and at most 1 in the fallback sequence of 2
\* attempts, none after the last failed attempt, each wait at least double
\* the one before it.
C5_SleepsOnlyBetweenAttempts ==
    \A t \in Threads :
        /\ sleeps_in(t, "primary") <= 2
        /\ sleeps_in(t, "fallback") <= 1
        /\ \A i, j \in events(t, "sleep") :
              (i < j /\ trace[t][i].detail[1] = trace[t][j].detail[1]) =>
                  trace[t][j].detail[2] >= 2 * trace[t][i].detail[2]

\* C6: the fallback sequence against 1d starts only when the primary sequence
\* is exhausted and the requested interval is not 1d; a request for 1d makes
\* no provider call after its primary sequence.
C6_NoFallbackForDaily ==
    \A t \in Threads :
        /\ calls_in(t, "fallback") > 0 =>
              /\ calls_in(t, "primary") = 3
              /\ interval[t] # "1d"
        /\ interval[t] = "1d" => calls(t) <= 3

\* C7: set_cache stores the fetched frame under the key of the upper-cased
\* symbol and the requested interval, and touches no other key; so the frame
\* of a 1d fallback is stored under the requested interval, and nothing is
\* written under (symbol, 1d).  A successful attempt always goes on to
\* set_cache.
C7_StoredUnderRequestedKey ==
    [][/\ (\E k \in DOMAIN CACHE' : k \notin DOMAIN CACHE \/ CACHE'[k] # CACHE[k]) =>
            \E t \in Threads : pc[t] = "set_cache_locked" /\ pc'[t] # "set_cache_locked"
       /\ \A t \in Threads :
        /\ (pc[t] = "set_cache_locked" /\ pc'[t] # "set_cache_locked") =>
              LET requested == IF request[t].interval = "5m" THEN "5m" ELSE "1d"
                  key == << "ACME", requested >>
              IN  /\ request[t].symbol = "acme"
                  /\ request[t].interval \in {"5m", "Daily"}
                  /\ DOMAIN CACHE' = DOMAIN CACHE \cup {key}
                  /\ CACHE'[key] = [ts |-> now, data |-> hist[t]]
                  /\ \A k \in DOMAIN CACHE \ {key} : CACHE'[k] = CACHE[k]
        /\ (pc[t] = "download" /\ pc'[t] \notin {"download", "sleep"}) =>
              pc'[t] = "set_cache"
        /\ (pc[t] = "set_cache" /\ pc'[t] # "set_cache") =>
              pc'[t] = "set_cache_locked"
      ]_vars

\* a request for 5m was served by the 1d fallback: its frame is stored under
\* (ACME, 5m) and there is no entry under (ACME, 1d)
C7_Witness ==
    \E t \in Threads :
        /\ pc[t] = "respond"
        /\ interval[t] = "5m"
        /\ calls_in(t, "fallback") >= 1
        /\ << "ACME", "5m" >> \in DOMAIN CACHE
        /\ CACHE[<< "ACME", "5m" >>].data = hist[t]
        /\ << "ACME", "1d" >> \notin DOMAIN CACHE

\* C8: a request whose interval is no member of the enumeration after
\* lower-casing and alias resolution ("7D") is answered 400 with a message
\* that names the interval, and looks up nothing, writes nothing, acquires no
\* slot and calls no provider; the intervals that reach the cache and the
\* provider are members.
C8_OnlyValidIntervalsReachTheCore ==
    \A t \in Threads :
        /\ (request[t] # NoRequest /\ request[t].interval = "7D") =>
              /\ pc[t] = "done"
              /\ response[t] = Response(error_xml("Unsupported interval '7d'"),
                                        "application/xml", 400)
              /\ trace[t] = << >>
        /\ status(t) = 400 => request[t].interval = "7D"
        /\ trace[t] # << >> => interval[t] \in VALID_INTERVALS
        /\ \A i \in events(t, "yf.download") : trace[t][i].detail[4] \in VALID_INTERVALS
        /\ \A k \in DOMAIN CACHE : k[2] \in VALID_INTERVALS

\* the second request of a thread was refused with 400 and the entry that the
\* first one stored is as it was
C8_Witness ==
    \E t \in Threads :
        /\ status(t) = 400
        /\ trace[t] = << >>
        /\ DOMAIN CACHE # {}
        /\ DOWNLOAD_SEMAPHORE = 3

\* the message of the exception a failed attempt ends with
failure_message(r) ==
    CASE r.kind = "exc" -> r.msg
      [] r.kind = "None" -> "yfinance returned None"
      [] OTHER -> "Empty DataFrame returned"

\* C9: when the primary and the fallback sequence are both exhausted the
\* request ends with status 502 and an error body that carries the message of
\* the last failed attempt; it has made its 3 + 2 provider calls, makes no
\* more and has written no cache entry.
C9_ExhaustionIsTerminal ==
    \A t \in Threads :
        /\ status(t) = 502 =>
              /\ pc[t] = "done"
              /\ frame[t] = NoFrame
              /\ calls_in(t, "primary") = 3
              /\ calls_in(t, "fallback") = 2
              /\ events(t, "set_cache") = {}
              /\ ~is_data(returned[t])
              /\ response[t] =
                    Response(error_xml("No data returned for symbol 'acme' with interval '"
                                 \o interval[t] \o "' or fallback: "
                                 \o failure_message(returned[t])),
                             "application/xml", 502)
        /\ (pc[t] = "done" /\ calls_in(t, "fallback") = 2 /\ ~is_data(returned[t])) =>
              status(t) = 502

\* a request ended 502 after a last attempt that returned an empty frame
C9_Witness ==
    \E t \in Threads :
        /\ status(t) = 502
        /\ returned[t] = EmptyFrame
        /\ frame[t] = NoFrame
        /\ CACHE = << >>

\* C10: every failure response (400, 502, 500) carries its message in the
\* negotiated format: JSON when the Accept header contains application/json
\* in any letter case, XML otherwise.
C10_ErrorsInNegotiatedFormat ==
    \A t \in Threads :
        status(t) \in {400, 500, 502} =>
            response[t].media_type =
                (IF request[t].accept = "Application/JSON"
                 THEN "application/json" ELSE "application/xml")

\* C11: a request whose interval is a member of the enumeration or one of the
\* aliases daily, weekly, monthly, spelled in any mix of upper and lower case,
\* is served with the canonical member (the member itself, 1d, 1wk, 1mo) and is
\* not refused; the upper-case and the lower-case spelling normalize to the
\* same member, and normalizing the result again returns it unchanged.
C11_NormalizationCanonical ==
    \A t \in Threads :
        request[t] # NoRequest =>
            \A m \in DOMAIN IntervalSpellings :
                request[t].interval \in IntervalSpellings[m] =>
                    LET canonical == CASE m = "daily" -> "1d"
                                       [] m = "weekly" -> "1wk"
                                       [] m = "monthly" -> "1mo"
                                       [] OTHER -> m
                    IN  /\ canonical \in VALID_INTERVALS
                        /\ interval[t] = canonical
                        /\ status(t) # 400
                        /\ normalize(upper(request[t].interval)) = Text(canonical)
                        /\ normalize(lower(request[t].interval)) = Text(canonical)
                        /\ normalize(interval[t]) = Text(interval[t])

\* a request for MoNtHlY was served with the interval 1mo
C11_Witness ==
    \E t \in Threads :
        /\ request[t] # NoRequest
        /\ request[t].interval = "MoNtHlY"
        /\ interval[t] = "1mo"
        /\ status(t) = 200
        /\ \E i \in events(t, "yf.download") : trace[t][i].detail[4] = "1mo"

\* thread t has answered its request from a cached or fetched frame
answered(t) == pc[t] = "done" /\ status(t) \in {200, 500}

\* the history and the records_returned of a success response, read from its
\* JSON object or from its XML document
history_of(resp) ==
    IF resp.media_type = "application/json" THEN resp.content.history
    ELSE [i \in 1 .. Len(resp.content.children[6].children) |->
             LET rec == resp.content.children[6].children[i].children
             IN  [date |-> rec[1].text, open |-> rec[2].text, close |-> rec[3].text]]

records_returned_of(resp) ==
    IF resp.media_type = "application/json"
    THEN IntString(resp.content.records_returned)
    ELSE resp.content.children[5].text

\* a record as the response of the media type shows it
shown(rec, media_type) ==
    IF media_type = "application/json" THEN rec
    ELSE [date |-> rec.date, open |-> number_text(rec.open),
          close |-> number_text(rec.close)]

field_or_null(frame0, row, name) ==
    IF name \notin frame0.columns THEN None
    ELSE IF float(row.cells[name]).kind = "exc" THEN None
    ELSE float(row.cells[name])

\* C13: record normalization never raises for a single field: an Open or
\* Close that is absent or not a number is null in the record of its row, the
\* other field keeps its parsed value, and the request is answered with the
\* records.
C13_FieldFailureYieldsNull ==
    \A t \in Threads :
        (answered(t) /\ request[t].max_records >= 1) =>
            LET N == request[t].max_records
                rows == hist[t].rows
                L == Len(rows)
                k == IF N < L THEN N ELSE L
            IN  /\ status(t) = 200
                /\ Len(history_of(response[t])) = k
                /\ \A i \in 1 .. k :
                      history_of(response[t])[i] =
                          shown([ date  |-> date_str(rows[L - k + i].date),
                                  open  |-> field_or_null(hist[t], rows[L - k + i], "Open"),
                                  close |-> field_or_null(hist[t], rows[L - k + i], "Close") ],
                                response[t].media_type)

\* is resp a failure response: a status of 500 and an error body
is_error_500(resp) ==
    /\ resp.status_code = 500
    /\ resp.content.tag = "error"

\* C14: a request whose processing after the fetch fails ends with status 500
\* and an error body, never with a 200 success body; the failures are a row
\* that does not convert and a series that is empty, when it arrives or after
\* the truncation to max_records.
C14_ProcessingFailureIs500 ==
    \A t \in Threads :
        answered(t) =>
            LET kept == tail(hist[t], request[t].max_records)
            IN  (empty(hist[t]) \/ empty(kept) \/ df_to_records(kept).kind = "exc")
                    => is_error_500(response[t])

\* C15: CACHE_LOCK is held only inside get_from_cache and set_cache: no thread
\* holds it while it waits for or holds a gate slot, is inside the provider
\* call or sleeps; and a request writes the cache only when its fetch has
\* completed: its retry sequence has returned a frame, its last provider call
\* has ended and its slot is released.
C15_LockOnlyAroundMapAccess ==
    /\ CACHE_LOCK \in {0} \cup Threads
    /\ \A t \in Threads :
          /\ CACHE_LOCK = t <=> pc[t] \in {"get_from_cache_locked", "set_cache_locked"}
          /\ pc[t] \in {"acquire", "download", "sleep"} => CACHE_LOCK # t
          /\ pc[t] \in {"set_cache", "set_cache_locked"} =>
                /\ frame[t] = NoFrame
                /\ is_data(returned[t])
                /\ hist[t] = returned[t]
                /\ trace[t][Len(trace[t])].event = "release"
                /\ Cardinality(events(t, "release")) = Cardinality(events(t, "acquire"))
          /\ \A i \in events(t, "set_cache") :
                /\ trace[t][i - 1].event = "release"
                /\ \A j \in events(t, "acquire") \cup events(t, "yf.download")
                             \cup events(t, "sleep") : j < i

\* a thread is inside set_cache with the lock while a second is inside the
\* provider call, a third sleeps and a fourth waits for the lock
C15_Witness ==
    \E t1, t2, t3, t4 \in Threads :
        /\ pc[t1] = "set_cache_locked" /\ CACHE_LOCK = t1
        /\ pc[t2] = "download"
        /\ pc[t3] = "sleep"
        /\ pc[t4] = "get_from_cache"

\* C16: there is no per-key single-flight.  A request that missed the cache
\* enters the provider call as soon as a slot is free, whether or not another
\* thread is inside a provider call for the same key; a call that returns a
\* frame does not end or serve the calls of the other threads; and set_cache
\* stores the frame of its thread over whatever entry the key has.  So two
\* requests that missed the same key can be inside the provider call at the
\* same time and both write the entry, the later write replacing the earlier.
C16_NoSingleFlight ==
    /\ [](\A t \in Threads :
            /\ (pc[t] = "acquire" /\ DOWNLOAD_SEMAPHORE > 0) => ENABLED acquire(t)
            /\ t \in overlapped => events(t, "yf.download") # {})
    /\ [][\A t \in Threads :
            /\ (pc[t] = "get_from_cache_locked" /\ pc'[t] = "acquire") =>
                  \A u \in peers(t) : pc'[u] = "download"
            /\ (pc[t] = "download" /\ pc'[t] # "download") =>
                  \A u \in peers(t) : pc'[u] = "download" /\ hist'[u] = hist[u]
            /\ (pc[t] = "set_cache_locked" /\ pc'[t] # "set_cache_locked") =>
                  CACHE'[store_key(t)] = [ts |-> now, data |-> hist[t]]
         ]_vars

\* two requests for one key both missed the cache, were inside the provider
\* call at the same time, and both have written the entry
C16_Witness ==
    \E t1, t2 \in Threads :
        /\ t1 # t2
        /\ {t1, t2} \subseteq overlapped
        /\ store_key(t1) = store_key(t2)
        /\ \A t \in {t1, t2} :
              /\ pc[t] \in {"respond", "done"}
              /\ trace[t][1] = Event("get_from_cache", store_key(t))
              /\ events(t, "set_cache") # {}
              /\ hist[t] = CACHE[store_key(t)].data

\* thread t found a valid entry: the lookup is all it has done for its request
cache_hit(t) ==
    /\ pc[t] \in {"respond", "done"}
    /\ Len(trace[t]) = 1
    /\ trace[t][1].event = "get_from_cache"

\* C17: a request that finds an entry younger than 90 seconds goes from the
\* lookup to its response: it acquires no slot, calls no provider, does not
\* sleep and does not write the cache; the lookup and the response leave the
\* entry and its timestamp as they were and leave the gate alone, whatever
\* the number of free slots, so the request completes while all 3 slots are
\* taken.
C17_CacheHitBypassesGate ==
    [][\A t \in Threads :
            LET key == cache_key(request[t].symbol, interval[t])
            IN  /\ cache_hit(t)' =>
                        /\ frame'[t] = NoFrame
                        /\ hist'[t] # None
                        /\ pc'[t] = "done" => status(t)' = 200
                /\ ( /\ pc[t] = "get_from_cache_locked"
                     /\ pc'[t] # "get_from_cache_locked"
                     /\ key \in DOMAIN CACHE
                     /\ now - CACHE[key].ts < 90 ) =>
                        /\ cache_hit(t)'
                        /\ hist'[t] = CACHE[key].data
                        /\ CACHE' = CACHE
                        /\ DOWNLOAD_SEMAPHORE' = DOWNLOAD_SEMAPHORE
                /\ (cache_hit(t) /\ pc[t] = "respond" /\ pc'[t] # "respond") =>
                        /\ cache_hit(t)'
                        /\ pc'[t] = "done"
                        /\ CACHE' = CACHE
                        /\ DOWNLOAD_SEMAPHORE' = DOWNLOAD_SEMAPHORE
      ]_vars

\* a request was answered from an entry that is 89 seconds old, and the
\* entry is as its writer left it, while the three other threads are inside
\* the provider call
C17_Witness ==
    \E t \in Threads :
        /\ cache_hit(t)
        /\ pc[t] = "done"
        /\ status(t) = 200
        /\ DOWNLOAD_SEMAPHORE = 0
        /\ \A u \in Threads \ {t} : pc[u] = "download"
        /\ now = 89
        /\ CACHE[store_key(t)] = [ts |-> 0, data |-> hist[t]]

\* the slots thread t has acquired and not released for its request
slots_held(t) ==
    Cardinality(events(t, "acquire")) - Cardinality(events(t, "release"))

\* C18: a thread holds a slot exactly while it is inside one provider call: a
\* thread that sleeps, waits for its next attempt or is anywhere else holds
\* none, so the slots that are not free are those of the calls under way and
\* a thread waiting at the gate finds a free slot whenever fewer than 3 calls
\* are under way, whoever sleeps.
C18_SlotHeldOnlyInsideCall ==
    /\ \A t \in Threads :
          /\ slots_held(t) = (IF pc[t] = "download" THEN 1 ELSE 0)
          /\ pc[t] = "sleep" => trace[t][Len(trace[t])].event = "release"
    /\ DOWNLOAD_SEMAPHORE >= 3 - Cardinality({t \in Threads : slots_held(t) = 1})
    /\ ( /\ \E t \in Threads : pc[t] = "acquire"
         /\ Cardinality(in_provider_call) < 3 ) => DOWNLOAD_SEMAPHORE > 0

\* a thread sleeps after a failed attempt while the three other threads are
\* inside the provider call
C18_Witness ==
    \E t \in Threads :
        /\ pc[t] = "sleep"
        /\ \A u \in Threads \ {t} : pc[u] = "download"
        /\ DOWNLOAD_SEMAPHORE = 0

\* thread t serves a request that has no response yet
serving(t) == pc[t] \notin {"idle", "done"}

C20_CacheHoldsData ==
    /\ \A k \in DOMAIN CACHE :
          /\ CACHE[k].data \in ProviderResults
          /\ CACHE[k].data.kind = "df"
          /\ Len(CACHE[k].data.rows) > 0
    /\ \A t \in Threads :
          /\ pc[t] \in {"set_cache", "set_cache_locked", "respond"} =>
                /\ hist[t] \in ProviderResults
                /\ hist[t].kind = "df"
                /\ Len(hist[t].rows) > 0
          /\ response[t] # NoResponse =>
                response[t].content # error_xml("Empty data after fetch")

\* the provider has answered a request with an empty frame, which is a failed
\* attempt, while the cache holds the series of an earlier request
C20_Witness ==
    \E t \in Threads :
        /\ pc[t] = "sleep"
        /\ returned[t] = EmptyFrame
        /\ DOMAIN CACHE # {}
        /\ \A k \in DOMAIN CACHE : CACHE[k].data \in {DailyFrame, OddFrame}

====
